---- MODULE Spec2Model ----
(***************************************************************************)
(* Model of setup.py: the CMakeBuild command that clones, configures,      *)
(* builds and installs the iowarp-core components in registry order.       *)
(* Every subprocess call of run() / build_component() is one step; the     *)
(* filesystem under build_temp and the install prefix persist across runs. *)
(***************************************************************************)
EXTENDS Integers, Sequences, FiniteSets, TLC

(* ---------------------------- bounds ----------------------------------- *)
MaxRuns == 2        \* number of times run() is started on the same build_temp
MaxExit == 1        \* exit statuses of external tools range over 0..MaxExit
MaxCpus == 2        \* multiprocessing.cpu_count() ranges over 1..MaxCpus
MaxParallel == 1    \* a supplied self.parallel ranges over 0..MaxParallel

ExitCodes == 0..MaxExit
CpuCounts == 1..MaxCpus
Platforms == {"linux", "win32"}
Tools == {"cmake", "git"}

(* self.parallel: build_ext leaves it None unless the user passes -j/--parallel *)
ParallelNone == [supplied |-> FALSE, value |-> 0]
ParallelValues ==
    {ParallelNone} \cup {[supplied |-> TRUE, value |-> n] : n \in 0..MaxParallel}

(* ---------------------------- registry --------------------------------- *)
\* variant: the second component is named like the first one's build directory
COMPONENTS_clash ==
    << [name |-> "context-transport-primitives",
        repo |-> "https://github.com/iowarp/context-transport-primitives",
        cmake_args |-> << "-DHSHM_ENABLE_CUDA=OFF", "-DHSHM_ENABLE_ROCM=OFF",
                          "-DHSHM_ENABLE_MPI=OFF", "-DHSHM_ENABLE_ZMQ=OFF" >>],
       [name |-> "context-transport-primitives-build",
        repo |-> "https://github.com/iowarp/runtime",
        cmake_args |-> << >>],
       [name |-> "context-transfer-engine",
        repo |-> "https://github.com/iowarp/context-transfer-engine",
        cmake_args |-> << >>],
       [name |-> "context-assimilation-engine",
        repo |-> "https://github.com/iowarp/context-assimilation-engine",
        cmake_args |-> << >>] >>

COMPONENTS ==
    << [name |-> "context-transport-primitives",
        repo |-> "https://github.com/iowarp/context-transport-primitives",
        cmake_args |-> << "-DHSHM_ENABLE_CUDA=OFF", "-DHSHM_ENABLE_ROCM=OFF",
                          "-DHSHM_ENABLE_MPI=OFF", "-DHSHM_ENABLE_ZMQ=OFF" >>],
       [name |-> "runtime",
        repo |-> "https://github.com/iowarp/runtime",
        cmake_args |-> << >>],
       [name |-> "context-transfer-engine",
        repo |-> "https://github.com/iowarp/context-transfer-engine",
        cmake_args |-> << >>],
       [name |-> "context-assimilation-engine",
        repo |-> "https://github.com/iowarp/context-assimilation-engine",
        cmake_args |-> << >>] >>

N == Len(COMPONENTS)

Range(s) == {s[k] : k \in DOMAIN s}

(* ---------------------------- paths ------------------------------------ *)
build_temp == "build_temp"
install_prefix == "sys.prefix"
build_lib == "build_lib"

\* build_temp / name
source_dir(i) == build_temp \o "/" \o COMPONENTS[i].name

\* build_temp / f"{name}-build"
build_dir(i) == build_temp \o "/" \o COMPONENTS[i].name \o "-build"

\* variant: build_temp is removed and created afresh at the start of a run
mkdir_fresh(f, p) == IF p = build_temp THEN {p} ELSE f \cup {p}

\* variant: the directory is not created
mkdir_missing(f, p) == f

\* Path.mkdir(parents=True, exist_ok=True)
mkdir(f, p) == f \cup {p}

(* ---------------------------- state ------------------------------------ *)
VARIABLES
    fs,         \* directories that exist under (and including) build_temp
    prefix,     \* names of the components with artifacts in install_prefix
    tools,      \* executables reachable on the host
    platform,   \* sys.platform
    cpus,       \* what multiprocessing.cpu_count() reports now
    parallel,   \* self.parallel of the running command
    pc,         \* position of run(): idle, probe, acquire, configure, build,
                \* install, done (returned), failed (an exception escaped)
    idx,        \* index into COMPONENTS of the component being built
    trace,      \* this run's prints and subprocess calls, in order
    err,        \* the exception that escaped run()
    runs        \* number of runs started so far

vars == << fs, prefix, tools, platform, cpus, parallel, pc, idx, trace, err, runs >>

NoError == [kind |-> "none", cmd |-> << >>, returncode |-> 0]

\* a subprocess call: spawned is FALSE when the executable was not found
Call(op, i, args, present, rc) ==
    [op |-> op, comp |-> i, args |-> args, spawned |-> present,
     rc |-> IF present THEN rc ELSE 0]

Stdout(i, text) ==
    [op |-> "print", comp |-> i, args |-> text, spawned |-> FALSE, rc |-> 0]

Init ==
    /\ fs = {}
    /\ prefix = {}
    /\ tools = Tools
    /\ platform \in Platforms
    /\ cpus \in CpuCounts
    /\ parallel = ParallelNone
    /\ pc = "idle"
    /\ idx = 1
    /\ trace = << >>
    /\ err = NoError
    /\ runs = 0

(* ---------------------------- helpers ---------------------------------- *)
\* variant: the probe's exit status is not checked (subprocess.call)
ProbeResult_unchecked(present, rc) ==
    IF ~present THEN "RuntimeError" ELSE "ok"

\* variant: the up-front probe also requires the version-control client
ProbeResult_git(present, rc) ==
    IF ~present \/ "git" \notin tools THEN "RuntimeError"
    ELSE IF rc # 0 THEN "CalledProcessError"
    ELSE "ok"

\* subprocess.check_output(["cmake", "--version"]) inside try/except OSError
ProbeResult(present, rc) ==
    IF ~present THEN "RuntimeError"
    ELSE IF rc # 0 THEN "CalledProcessError"
    ELSE "ok"

\* variant: the exit status is not checked (subprocess.call)
check_call_unchecked(present, rc) ==
    IF ~present THEN "FileNotFoundError" ELSE "ok"

\* subprocess.check_call(args)
check_call(present, rc) ==
    IF ~present THEN "FileNotFoundError"
    ELSE IF rc # 0 THEN "CalledProcessError"
    ELSE "ok"

\* variant: the exception drops the tool's exit status
Exception_norc(kind, args, rc) ==
    [kind |-> kind,
     cmd |-> IF kind = "RuntimeError" THEN << >> ELSE args,
     returncode |-> 0]

\* the exception object raised for a failed call
Exception(kind, args, rc) ==
    [kind |-> kind,
     cmd |-> IF kind = "RuntimeError" THEN << >> ELSE args,
     returncode |-> IF kind = "CalledProcessError" THEN rc ELSE 0]

\* variant: the first failed call of a run is issued once more
Propagate_retry_once(res) ==
    IF \A k \in DOMAIN trace :
          trace[k].op = "print" \/ (trace[k].spawned /\ trace[k].rc = 0)
    THEN pc
    ELSE "failed"

\* variant: a failed call is issued again instead of ending the run
Propagate_retry(res) == pc

\* no handler in run() or build_component() catches the exception of a failed
\* call (only the probe's OSError is re-raised as RuntimeError): run() ends
Propagate(res) == "failed"

\* variant: the loop stops one component short
LoopNext_short(i) == IF i + 1 < N THEN "acquire" ELSE "done"

\* for component in self.COMPONENTS: the position after component i returned
LoopNext(i) == IF i + 1 <= N THEN "acquire" ELSE "done"

\* variant: the existence test is dropped and every run clones
NeedsClone_always(f, i) == TRUE

\* if not source_dir.exists()
NeedsClone(f, i) == source_dir(i) \notin f

\* variant: the clone is limited to the latest revision
clone_args_shallow(i) ==
    << "git", "clone", "--depth", "1", COMPONENTS[i].repo, source_dir(i) >>

\* subprocess.check_call(["git", "clone", repo, str(source_dir)])

clone_args(i) == << "git", "clone", COMPONENTS[i].repo, source_dir(i) >>

\* variant: a reused source tree is taken as already configured and built
PcAfterAcquire_skip(cloned) == IF cloned THEN "configure" ELSE "install"

\* the code falls through from the acquire step to configure in both branches
PcAfterAcquire(cloned) == "configure"

\* variant: the component's options are placed before the shared defaults
cmake_configure_args_optsfirst(i, plat) ==
    << "cmake", source_dir(i) >>
    \o COMPONENTS[i].cmake_args
    \o << "-DCMAKE_INSTALL_PREFIX=" \o install_prefix,
          "-DCMAKE_BUILD_TYPE=Release",
          "-DBUILD_SHARED_LIBS=ON",
          "-DBUILD_TESTING=OFF" >>
    \o (IF plat = "win32"
        THEN << "-DCMAKE_LIBRARY_OUTPUT_DIRECTORY=" \o build_lib >>
        ELSE << >>)

\* variant: each component is configured with a prefix of its own
cmake_configure_args_ownprefix(i, plat) ==
    << "cmake", source_dir(i),
       "-DCMAKE_INSTALL_PREFIX=" \o install_prefix \o "/" \o COMPONENTS[i].name,
       "-DCMAKE_BUILD_TYPE=Release",
       "-DBUILD_SHARED_LIBS=ON",
       "-DBUILD_TESTING=OFF" >>
    \o COMPONENTS[i].cmake_args
    \o (IF plat = "win32"
        THEN << "-DCMAKE_LIBRARY_OUTPUT_DIRECTORY=" \o build_lib >>
        ELSE << >>)

\* variant: the platform flag is added before the component's options
cmake_configure_args_winfirst(i, plat) ==
    << "cmake", source_dir(i),
       "-DCMAKE_INSTALL_PREFIX=" \o install_prefix,
       "-DCMAKE_BUILD_TYPE=Release",
       "-DBUILD_SHARED_LIBS=ON",
       "-DBUILD_TESTING=OFF" >>
    \o (IF plat = "win32"
        THEN << "-DCMAKE_LIBRARY_OUTPUT_DIRECTORY=" \o build_lib >>
        ELSE << >>)
    \o COMPONENTS[i].cmake_args

\* the configure command line of component i on platform plat

cmake_configure_args(i, plat) ==
    << "cmake", source_dir(i),
       "-DCMAKE_INSTALL_PREFIX=" \o install_prefix,
       "-DCMAKE_BUILD_TYPE=Release",
       "-DBUILD_SHARED_LIBS=ON",
       "-DBUILD_TESTING=OFF" >>
    \o COMPONENTS[i].cmake_args
    \o (IF plat = "win32"
        THEN << "-DCMAKE_LIBRARY_OUTPUT_DIRECTORY=" \o build_lib >>
        ELSE << >>)

\* variant: the override is tested with "is not None"
Truthy_notNone(p) == p.supplied

\* hasattr(self, "parallel") and self.parallel
Truthy(p) == p.supplied /\ p.value # 0

\* variant: the number of jobs is resolved by the first build call of a run
\* and used again by the later ones
build_args_once(p, ncpu) ==
    IF \E k \in DOMAIN trace : trace[k].op = "build"
    THEN trace[CHOOSE k \in DOMAIN trace : trace[k].op = "build"].args
    ELSE << "cmake", "--build", ".", "--config", "Release", "--parallel",
            IF Truthy(p) THEN ToString(p.value) ELSE ToString(ncpu) >>

\* the build command line for self.parallel = p on a host reporting ncpu units

build_args(p, ncpu) ==
    << "cmake", "--build", ".", "--config", "Release", "--parallel",
       IF Truthy(p) THEN ToString(p.value) ELSE ToString(ncpu) >>

install_args == << "cmake", "--install", "." >>

(* ---------------------------- actions ---------------------------------- *)
\* setuptools invokes run() on a command whose parallel option is p, on a host
\* where the executables t are reachable
StartRun(p, t) ==
    /\ pc \in {"idle", "done", "failed"}
    /\ runs < MaxRuns
    /\ runs' = runs + 1
    /\ parallel' = p
    /\ tools' = t
    /\ pc' = "probe"
    /\ idx' = 1
    /\ trace' = << >>
    /\ err' = NoError
    /\ UNCHANGED << fs, prefix, platform, cpus >>

\* run(): the cmake version probe, then build_temp.mkdir and the loop entry
Probe(rc) ==
    /\ pc = "probe"
    /\ LET present == "cmake" \in tools
           args == << "cmake", "--version" >>
           res == ProbeResult(present, rc)
       IN /\ trace' = Append(trace, Call("probe", 0, args, present, rc))
          /\ IF res = "ok"
             THEN /\ fs' = mkdir(fs, build_temp)
                  /\ pc' = LoopNext(0)
                  /\ err' = err
             ELSE /\ fs' = fs
                  /\ pc' = Propagate(res)
                  /\ err' = Exception(res, args, rc)
    /\ UNCHANGED << prefix, tools, platform, cpus, parallel, idx, runs >>

\* build_component(): banner, clone unless source_dir exists, build_dir.mkdir
\* left: whether a failed clone leaves its destination directory behind
Acquire(rc, left) ==
    /\ pc = "acquire"
    /\ LET banner == Stdout(idx, << "Building component:", COMPONENTS[idx].name >>)
           present == "git" \in tools
           res == check_call(present, rc)
       IN IF NeedsClone(fs, idx)
          THEN /\ trace' = trace \o
                     << banner,
                        Stdout(idx, << "Cloning", COMPONENTS[idx].repo >>),
                        Call("clone", idx, clone_args(idx), present, rc) >>
               /\ IF res = "ok"
                  THEN /\ fs' = mkdir(mkdir(fs, source_dir(idx)), build_dir(idx))
                       /\ pc' = PcAfterAcquire(TRUE)
                       /\ err' = err
                  ELSE /\ fs' = IF present /\ left
                                THEN fs \cup {source_dir(idx)} ELSE fs
                       /\ pc' = Propagate(res)
                       /\ err' = Exception(res, clone_args(idx), rc)
          ELSE /\ trace' = trace \o
                     << banner,
                        Stdout(idx, << "Using existing source at", source_dir(idx) >>) >>
               /\ fs' = mkdir(fs, build_dir(idx))
               /\ pc' = PcAfterAcquire(FALSE)
               /\ err' = err
    /\ UNCHANGED << prefix, tools, platform, cpus, parallel, idx, runs >>

\* build_component(): the cmake configure call, cwd = build_dir
Configure(rc) ==
    /\ pc = "configure"
    /\ LET args == cmake_configure_args(idx, platform)
           res == check_call("cmake" \in tools, rc)
       IN /\ trace' = trace \o
                << Stdout(idx, << "Configuring with CMake..." >>),
                   Stdout(idx, << "Command:" >> \o args),
                   Call("configure", idx, args, "cmake" \in tools, rc) >>
          /\ IF res = "ok"
             THEN pc' = "build" /\ err' = err
             ELSE pc' = Propagate(res) /\ err' = Exception(res, args, rc)
    /\ UNCHANGED << fs, prefix, tools, platform, cpus, parallel, idx, runs >>

\* build_component(): cmake --build with the resolved number of jobs
Build(rc) ==
    /\ pc = "build"
    /\ LET args == build_args(parallel, cpus)
           res == check_call("cmake" \in tools, rc)
       IN /\ trace' = trace \o
                << Stdout(idx, << "Building", COMPONENTS[idx].name >>),
                   Call("build", idx, args, "cmake" \in tools, rc) >>
          /\ IF res = "ok"
             THEN pc' = "install" /\ err' = err
             ELSE pc' = Propagate(res) /\ err' = Exception(res, args, rc)
    /\ UNCHANGED << fs, prefix, tools, platform, cpus, parallel, idx, runs >>

\* build_component(): cmake --install, then back to the loop of run()
\* partial: whether a failed install has already copied artifacts
Install(rc, partial) ==
    /\ pc = "install"
    /\ LET args == install_args
           res == check_call("cmake" \in tools, rc)
           call == Call("install", idx, args, "cmake" \in tools, rc)
       IN IF res = "ok"
          THEN /\ trace' = trace \o
                     << Stdout(idx, << "Installing", COMPONENTS[idx].name >>),
                        call,
                        Stdout(idx, << COMPONENTS[idx].name,
                                      "built and installed successfully!" >>) >>
               /\ prefix' = prefix \cup {COMPONENTS[idx].name}
               /\ idx' = idx + 1
               /\ pc' = LoopNext(idx)
               /\ err' = err
          ELSE /\ trace' = trace \o
                     << Stdout(idx, << "Installing", COMPONENTS[idx].name >>), call >>
               /\ prefix' = IF partial THEN prefix \cup {COMPONENTS[idx].name}
                            ELSE prefix
               /\ idx' = idx
               /\ pc' = Propagate(res)
               /\ err' = Exception(res, args, rc)
    /\ UNCHANGED << fs, tools, platform, cpus, parallel, runs >>

\* the host's reported compute-unit count changes while a run is in progress;
\* the count is read only by the build step, so a change matters only there
CpuChange(n) ==
    /\ pc = "build"
    /\ n # cpus
    /\ cpus' = n
    /\ UNCHANGED << fs, prefix, tools, platform, parallel, pc, idx, trace, err, runs >>

Next ==
    \/ \E p \in ParallelValues, t \in SUBSET Tools : StartRun(p, t)
    \/ \E rc \in ExitCodes : Probe(rc)
    \/ \E rc \in ExitCodes, left \in BOOLEAN : Acquire(rc, left)
    \/ \E rc \in ExitCodes : Configure(rc)
    \/ \E rc \in ExitCodes : Build(rc)
    \/ \E rc \in ExitCodes, partial \in BOOLEAN : Install(rc, partial)
    \/ \E n \in CpuCounts : CpuChange(n)

Spec == Init /\ [][Next]_vars

\* a step of the running command: the subprocess it waits on has returned
RunStep ==
    \/ \E rc \in ExitCodes : Probe(rc)
    \/ \E rc \in ExitCodes, left \in BOOLEAN : Acquire(rc, left)
    \/ \E rc \in ExitCodes : Configure(rc)
    \/ \E rc \in ExitCodes : Build(rc)
    \/ \E rc \in ExitCodes, partial \in BOOLEAN : Install(rc, partial)

\* every subprocess the command blocks on eventually returns
FairSpec == Init /\ [][Next]_vars /\ WF_vars(RunStep)

TypeOK ==
    /\ pc \in {"idle", "probe", "acquire", "configure", "build", "install",
               "done", "failed"}
    /\ idx \in 1..(N + 1)
    /\ runs \in 0..MaxRuns

(* ---------------------- reading the run's trace ------------------------ *)
Stages == {"clone", "configure", "build", "install"}

IsCall(e) == e.op # "print"

\* the subprocess calls of this run, in order
Calls == SelectSeq(trace, IsCall)

Failed(e) == IsCall(e) /\ (~e.spawned \/ e.rc # 0)

Succeeded(e) == IsCall(e) /\ e.spawned /\ e.rc = 0

HasCall(op, i) == \E k \in DOMAIN trace : trace[k].op = op /\ trace[k].comp = i

HasOkCall(op, i) ==
    \E k \in DOMAIN trace :
        trace[k].op = op /\ trace[k].comp = i /\ Succeeded(trace[k])

\* build_component was entered for component i
Attempted(i) ==
    \E k \in DOMAIN trace :
        trace[k] = Stdout(i, << "Building component:", COMPONENTS[i].name >>)

\* the acquire step of component i took the "already present" branch
Reused(i) ==
    \E k \in DOMAIN trace :
        trace[k] = Stdout(i, << "Using existing source at", source_dir(i) >>)

StageFailed(i) ==
    \E k \in DOMAIN trace :
        trace[k].op \in Stages /\ trace[k].comp = i /\ Failed(trace[k])

(* ------------------------------ C1 ------------------------------------- *)
\* C1: fail-fast. If a stage of component i failed in this run, components
\* 1..i were each entered and no clone/configure/build/install was invoked
\* for any later component.
C1_FailFast ==
    \A i \in 1..N :
        StageFailed(i) =>
            /\ \A j \in 1..i : Attempted(j)
            /\ \A k \in DOMAIN trace : trace[k].comp <= i

\* the second component's compile failed after the first one was installed
C1_Witness ==
    /\ pc = "failed"
    /\ HasOkCall("install", 1)
    /\ \E k \in DOMAIN trace :
          trace[k].op = "build" /\ trace[k].comp = 2 /\ Failed(trace[k])

(* ------------------------------ C2 ------------------------------------- *)
\* C2: run() returns only if the probe and, for every component, acquire
\* (clone or reuse), configure, compile and install succeeded; and a run in
\* which every invocation exited 0 does not fail and leaves every component
\* installed.
C2_SuccessIffAllSucceeded ==
    /\ pc = "done" =>
          /\ Len(trace) >= 1 /\ trace[1].op = "probe" /\ Succeeded(trace[1])
          /\ \A k \in DOMAIN trace : ~Failed(trace[k])
          /\ \A i \in 1..N :
                /\ HasOkCall("clone", i) \/ Reused(i)
                /\ HasOkCall("configure", i)
                /\ HasOkCall("build", i)
                /\ HasOkCall("install", i)
                /\ COMPONENTS[i].name \in prefix
    /\ (pc \in {"done", "failed"} /\ \A k \in DOMAIN trace : ~Failed(trace[k]))
          => pc = "done"

\* a first run that cloned and installed all four components
C2_Witness ==
    /\ pc = "done"
    /\ runs = 1
    /\ \A i \in 1..N : HasOkCall("clone", i) /\ HasOkCall("install", i)

(* ------------------------------ C3 ------------------------------------- *)
\* what must immediately precede the first call made for component i
EntryOf(i, c) ==
    IF i = 1 THEN c.op = "probe" /\ Succeeded(c)
    ELSE c.op = "install" /\ c.comp = i - 1 /\ Succeeded(c)

\* C3: within a component the calls come in the order clone, configure,
\* build, install, each only after the previous one succeeded; the first call
\* of a component comes right after the successful install of the component
\* before it (after the probe, for the first one).
C3_StagesInOrder ==
    LET cs == Calls IN
    \A k \in DOMAIN cs :
        LET c == cs[k] IN
        /\ c.op = "probe" => k = 1
        /\ c.op # "probe" => k > 1
        /\ c.op = "clone" => EntryOf(c.comp, cs[k - 1])
        /\ c.op = "configure" =>
              \/ cs[k - 1].op = "clone" /\ cs[k - 1].comp = c.comp
                 /\ Succeeded(cs[k - 1])
              \/ Reused(c.comp) /\ EntryOf(c.comp, cs[k - 1])
        /\ c.op = "build" =>
              cs[k - 1].op = "configure" /\ cs[k - 1].comp = c.comp
              /\ Succeeded(cs[k - 1])
        /\ c.op = "install" =>
              cs[k - 1].op = "build" /\ cs[k - 1].comp = c.comp
              /\ Succeeded(cs[k - 1])

\* the second component has been configured, after the first was installed
C3_Witness ==
    /\ HasOkCall("install", 1)
    /\ HasCall("configure", 2)
    /\ COMPONENTS[1].name \in prefix

(* ------------------------------ C4 ------------------------------------- *)
\* C4: a step issues the clone of component i only when its source_dir does
\* not exist at that moment; so a run that starts with the source_dir present
\* never clones that component.
C4_CloneOnlyIfAbsent ==
    [][\A i \in 1..N :
          (HasCall("clone", i)' /\ ~HasCall("clone", i))
              => source_dir(i) \notin fs]_vars

\* a second run that reused the first component's tree and cloned the second
C4_Witness ==
    /\ runs = 2
    /\ Reused(1)
    /\ ~HasCall("clone", 1)
    /\ HasCall("clone", 2)

(* ------------------------------ C5 ------------------------------------- *)
\* the cmake version probe of this run did not succeed
ProbeFailed == Len(trace) >= 1 /\ trace[1].op = "probe" /\ Failed(trace[1])

\* C5 as claimed: whenever the probe fails (cmake absent, or non-zero exit)
\* the run reports the toolchain-missing error and stops before build_temp or
\* any directory is created and before any other call.
C5_ProbeFailureIsToolchainMissing ==
    [][ProbeFailed' =>
          /\ err'.kind = "RuntimeError"
          /\ pc' = "failed"
          /\ Len(trace') = 1
          /\ fs' = fs]_vars

\* C5 amended: a failed probe ends the run before anything is created or
\* invoked; the report is the toolchain-missing RuntimeError when cmake is
\* absent, and the probe's own CalledProcessError with its exit status when
\* cmake ran and exited non-zero.
C5_ProbeFailureStopsBeforeAnyWork ==
    [][ProbeFailed' =>
          /\ pc' = "failed"
          /\ Len(trace') = 1
          /\ fs' = fs
          /\ prefix' = prefix
          /\ IF trace'[1].spawned
             THEN /\ err'.kind = "CalledProcessError"
                  /\ err'.returncode = trace'[1].rc
                  /\ err'.cmd = trace'[1].args
             ELSE err'.kind = "RuntimeError"]_vars

\* a first run whose probe exited non-zero: nothing exists on disk
C5_Witness ==
    /\ ProbeFailed
    /\ trace[1].spawned
    /\ runs = 1
    /\ pc = "failed"
    /\ fs = {}

(* ------------------------------ C6 ------------------------------------- *)
\* C6 as claimed: with git absent (and a healthy cmake) the run ends with the
\* toolchain-missing error, found by an up-front probe before the first
\* component is entered.
C6_GitAbsentReportedUpFront ==
    ("git" \notin tools /\ "cmake" \in tools /\ ~ProbeFailed
        /\ pc \in {"done", "failed"}) =>
        /\ pc = "failed"
        /\ err.kind = "RuntimeError"
        /\ Len(trace) = 1
        /\ \A i \in 1..N : ~Attempted(i)

\* C6 amended: git is never probed. The toolchain-missing error is raised
\* only for an absent cmake; an absent git surfaces as the FileNotFoundError
\* of the first clone the run needs, after the cmake probe succeeded,
\* build_temp was created and every earlier component (all with an existing
\* source_dir) was built.
C6_GitAbsentFoundAtFirstClone ==
    /\ \A k \in DOMAIN trace :
          (IsCall(trace[k]) /\ trace[k].args[1] = "git")
              => trace[k].args = clone_args(trace[k].comp)
    /\ err.kind = "RuntimeError" => "cmake" \notin tools
    /\ ("git" \notin tools /\ pc = "failed" /\ "cmake" \in tools /\ ~ProbeFailed)
          => StageFailed(idx)
    /\ err.kind = "FileNotFoundError" =>
          /\ "git" \notin tools
          /\ pc = "failed"
          /\ build_temp \in fs
          /\ Succeeded(trace[1])
          /\ Attempted(idx)
          /\ trace[Len(trace)] = Call("clone", idx, clone_args(idx), FALSE, 0)
          /\ source_dir(idx) \notin fs
          /\ \A j \in 1..(idx - 1) : Reused(j) /\ HasOkCall("install", j)

\* git is absent in a second run: the first component is rebuilt from its
\* existing tree and the clone of the second one cannot be started
C6_Witness ==
    /\ "git" \notin tools
    /\ err.kind = "FileNotFoundError"
    /\ idx = 2
    /\ Reused(1)

(* ------------------------------ C7 ------------------------------------- *)
SharedDefaults ==
    { "-DCMAKE_INSTALL_PREFIX=" \o install_prefix,
      "-DCMAKE_BUILD_TYPE=Release",
      "-DBUILD_SHARED_LIBS=ON",
      "-DBUILD_TESTING=OFF" }

\* C7: every configure call carries all four shared defaults, each at a
\* position before every option of the component's cmake_args.
C7_DefaultsBeforeComponentOptions ==
    \A k \in DOMAIN trace :
        trace[k].op = "configure" =>
            LET a == trace[k].args
                opts == Range(COMPONENTS[trace[k].comp].cmake_args)
            IN /\ SharedDefaults \subseteq Range(a)
               /\ opts \subseteq Range(a)
               /\ \A p, q \in DOMAIN a :
                     (a[p] \in SharedDefaults /\ a[q] \in opts) => p < q

\* the first component, which has four options of its own, was configured
C7_Witness ==
    /\ HasCall("configure", 1)
    /\ COMPONENTS[1].cmake_args # << >>

(* ------------------------------ C8 ------------------------------------- *)
\* this step issued a build call
BuildIssued ==
    /\ Len(trace') > Len(trace)
    /\ trace'[Len(trace')].op = "build"

\* C8 as claimed: the build call gets cpu_count() when no override was
\* supplied, and any supplied integer verbatim.
C8_AnyOverrideVerbatim ==
    [][BuildIssued =>
          trace'[Len(trace')].args[7] =
              IF parallel.supplied THEN ToString(parallel.value)
              ELSE ToString(cpus)]_vars

\* C8 amended: a supplied non-zero override is passed verbatim; with no
\* override, or an override of 0, the build call gets cpu_count().
C8_NonZeroOverrideVerbatim ==
    [][BuildIssued =>
          /\ trace'[Len(trace')].args[6] = "--parallel"
          /\ trace'[Len(trace')].args[7] =
                IF parallel.supplied /\ parallel.value # 0
                THEN ToString(parallel.value)
                ELSE ToString(cpus)]_vars

\* an override of 0 on a host reporting 2 units: the build was given "2"
C8_Witness ==
    /\ parallel.supplied
    /\ parallel.value = 0
    /\ cpus = 2
    /\ pc = "install"
    /\ trace[Len(trace)].args[7] = "2"

(* ------------------------------ C9 ------------------------------------- *)
\* the stage a failed command line belongs to
StageOf(cmd) ==
    IF cmd[1] = "git" THEN "clone"
    ELSE IF cmd[2] = "--build" THEN "build"
    ELSE IF cmd[2] = "--install" THEN "install"
    ELSE IF cmd[2] = "--version" THEN "probe"
    ELSE "configure"

\* the components an exception names: those whose source_dir is in its cmd
NamedBy(e) == {i \in 1..N : source_dir(i) \in Range(e.cmd)}

\* this run ended on a failed clone, configure, build or install
EndedOnStageFailure ==
    /\ pc = "failed"
    /\ Len(trace) >= 1
    /\ trace[Len(trace)].op \in Stages

C10_RebuildAlways ==
    \A i \in 1..N :
        /\ (Reused(i) /\ trace[Len(trace)].comp = i
              /\ trace[Len(trace)].op = "print"
              /\ trace[Len(trace)].args[1] = "Using existing source at")
              => pc = "configure"
        /\ (idx = i /\ pc \in {"build", "install"}) => HasOkCall("configure", i)
        /\ (idx = i /\ pc = "install") => HasOkCall("build", i)
        /\ ((idx > i /\ pc \in {"acquire", "configure", "build", "install",
                                "failed"})
              \/ pc = "done")
              => /\ HasOkCall("configure", i)
                 /\ HasOkCall("build", i)
                 /\ HasOkCall("install", i)
        /\ Reused(i) <=> (Attempted(i) /\ ~HasCall("clone", i))

\* a second run over the directories of a complete first run: nothing was
\* cloned, everything was configured, built and installed again
C10_Witness ==
    /\ runs = 2
    /\ pc = "done"
    /\ \A i \in 1..N :
          /\ Reused(i)
          /\ ~HasCall("clone", i)
          /\ HasOkCall("configure", i)
          /\ HasOkCall("build", i)
          /\ HasOkCall("install", i)

(* ------------------------------ C11 ------------------------------------ *)
\* C11: no rollback. No step removes a directory under build_temp or an
\* artifact from install_prefix; when a stage of component i fails, the
\* components before it are still installed and their source and build
\* directories still exist.
C11_NoRollback ==
    [][/\ fs \subseteq fs'
       /\ prefix \subseteq prefix'
       /\ (pc' = "failed" /\ ~ProbeFailed') =>
             \A j \in 1..(idx' - 1) :
                /\ COMPONENTS[j].name \in prefix'
                /\ source_dir(j) \in fs'
                /\ build_dir(j) \in fs']_vars

\* the third component failed: the first two are installed, their trees exist
C11_Witness ==
    /\ pc = "failed"
    /\ idx = 3
    /\ StageFailed(3)
    /\ {COMPONENTS[1].name, COMPONENTS[2].name} \subseteq prefix
    /\ {source_dir(1), build_dir(1), source_dir(2), build_dir(2)} \subseteq fs

(* ------------------------------ C12 ------------------------------------ *)
\* C12: every configure call of a run passes the same install prefix option,
\* the one built from install_prefix.
C12_SamePrefixForAll ==
    \A k, l \in DOMAIN trace :
        (trace[k].op = "configure" /\ trace[l].op = "configure") =>
            /\ trace[k].args[3] = trace[l].args[3]
            /\ trace[k].args[3] = "-DCMAKE_INSTALL_PREFIX=" \o install_prefix

\* the second component is configured after the first was installed
C12_Witness ==
    /\ HasCall("configure", 1)
    /\ HasCall("configure", 2)
    /\ COMPONENTS[1].name \in prefix
    /\ pc = "build"

(* ------------------------------ C13 ------------------------------------ *)
RecursionOptions == {"--recursive", "--recurse-submodules"}

ShallowOptions ==
    {"--depth", "--shallow-since", "--shallow-exclude", "--single-branch",
     "--filter"}

\* C13 as claimed: every clone fetches the component's repo into its
\* source_dir with full history and with nested repositories.
C13_CloneFullAndRecursive ==
    \A k \in DOMAIN trace :
        (trace[k].op = "clone" /\ trace[k].spawned) =>
            LET a == trace[k].args IN
            /\ COMPONENTS[trace[k].comp].repo \in Range(a)
            /\ source_dir(trace[k].comp) \in Range(a)
            /\ Range(a) \cap ShallowOptions = {}
            /\ Range(a) \cap RecursionOptions # {}

\* C13 amended: every clone is exactly "git clone <repo> <source_dir>": it is
\* issued only for an absent source_dir, has no depth limit (full history)
\* and no recursion option, so nested repositories are not requested.
C13_ClonePlainFull ==
    \A k \in DOMAIN trace :
        trace[k].op = "clone" =>
            LET a == trace[k].args
                i == trace[k].comp
            IN /\ a = << "git", "clone", COMPONENTS[i].repo, source_dir(i) >>
               /\ Range(a) \cap ShallowOptions = {}
               /\ Range(a) \cap RecursionOptions = {}
               /\ ~Reused(i)

\* the first component's tree was absent and has been cloned
C13_Witness ==
    /\ HasOkCall("clone", 1)
    /\ source_dir(1) \in fs
    /\ pc = "configure"

(* ------------------------------ C14 ------------------------------------ *)
\* the last n entries of the sequence a
LastN(a, n) == SubSeq(a, Len(a) - n + 1, Len(a))

PlatformFlag == "-DCMAKE_LIBRARY_OUTPUT_DIRECTORY=" \o build_lib

\* C14 as claimed: on every platform the component's cmake_args are the last
\* entries of the configure command line.
C14_ComponentOptionsLast ==
    \A k \in DOMAIN trace :
        trace[k].op = "configure" =>
            LET opts == COMPONENTS[trace[k].comp].cmake_args
            IN LastN(trace[k].args, Len(opts)) = opts

\* C14 amended: the component's cmake_args come after every shared default;
\* they are the last entries except on Windows, where the library output
\* directory flag is appended after them.
C14_ComponentOptionsLastButPlatformFlag ==
    \A k \in DOMAIN trace :
        trace[k].op = "configure" =>
            LET opts == COMPONENTS[trace[k].comp].cmake_args
                a == trace[k].args
            IN IF platform = "win32"
               THEN /\ a[Len(a)] = PlatformFlag
                    /\ LastN(a, Len(opts) + 1) = opts \o << PlatformFlag >>
               ELSE /\ LastN(a, Len(opts)) = opts
                    /\ PlatformFlag \notin Range(a)

\* on Windows the first component, which has options, was configured
C14_Witness ==
    /\ platform = "win32"
    /\ HasCall("configure", 1)
    /\ COMPONENTS[1].cmake_args # << >>

(* ------------------------------ C15 ------------------------------------ *)
\* how many times this run invoked op for component i
Invocations(op, i) ==
    Cardinality({k \in DOMAIN trace : trace[k].op = op /\ trace[k].comp = i})

\* C15: no retry. In a run each of clone, configure, build and install is
\* invoked at most once per component, whatever its outcome, and the cmake
\* version probe exactly once (it is the first thing a run does).
C15_NoRetry ==
    /\ \A op \in Stages, i \in 1..N : Invocations(op, i) <= 1
    /\ Invocations("probe", 0) = (IF pc \in {"idle", "probe"} THEN 0 ELSE 1)
    /\ \A k \in DOMAIN trace :
          IsCall(trace[k]) =>
              \/ trace[k].op = "probe" /\ trace[k].comp = 0
              \/ trace[k].op \in Stages /\ trace[k].comp \in 1..N

\* a run ended by a failed build of the second component: one call each
C15_Witness ==
    /\ pc = "failed"
    /\ idx = 2
    /\ Invocations("probe", 0) = 1
    /\ Invocations("clone", 2) = 1
    /\ Invocations("configure", 2) = 1
    /\ Invocations("build", 2) = 1
    /\ \E k \in DOMAIN trace : trace[k].op = "build" /\ Failed(trace[k])

(* ------------------------------ C16 ------------------------------------ *)
\* C16: if every subprocess the run waits on returns, a started run ends,
\* returned or failed, and it makes at most 1 + 4 * N subprocess calls.
C16_RunTerminates ==
    /\ (pc = "probe") ~> (pc \in {"done", "failed"})
    /\ [](Len(Calls) <= 1 + 4 * N)

\* a first run that returned after the probe and four calls per component
C16_Witness ==
    /\ pc = "done"
    /\ Len(Calls) = 1 + 4 * N

(* ------------------------------ C17 ------------------------------------ *)
\* C17 as claimed: all build calls of a run carry the same number of jobs.
C17_SameJobsForAll ==
    \A k, l \in DOMAIN trace :
        (trace[k].op = "build" /\ trace[l].op = "build") =>
            trace[k].args[7] = trace[l].args[7]

\* C17 amended: the number of jobs is resolved again by every build call. A
\* build call carries the same number as an earlier one of the run exactly
\* when a non-zero override is set or the host reports now what it reported
\* then.
C17_JobsResolvedPerComponent ==
    [][BuildIssued =>
          \A k \in DOMAIN trace :
              trace[k].op = "build" =>
                  ((trace'[Len(trace')].args[7] = trace[k].args[7])
                      <=> \/ parallel.supplied /\ parallel.value # 0
                          \/ trace[k].args[7] = ToString(cpus))]_vars

\* without an override the first two components were built with 1 and 2 jobs
C17_Witness ==
    /\ ~parallel.supplied
    /\ \E k, l \in DOMAIN trace :
          /\ trace[k].op = "build" /\ trace[k].comp = 1
          /\ trace[l].op = "build" /\ trace[l].comp = 2
          /\ trace[k].args[7] = "1"
          /\ trace[l].args[7] = "2"

(* ------------------------------ C18 ------------------------------------ *)
\* C18: for the registry of the code the 2 * N derived directories are
\* pairwise distinct, so no component finds its source_dir created by another
\* component's step: a source tree is reused only if an earlier run left it.
C18_DirsDistinct ==
    /\ \A i, j \in 1..N :
          i # j =>
              /\ source_dir(i) # source_dir(j)
              /\ source_dir(i) # build_dir(j)
              /\ build_dir(i) # build_dir(j)
    /\ \A i \in 1..N : source_dir(i) # build_dir(i)
    /\ Cardinality({source_dir(i) : i \in 1..N} \cup {build_dir(i) : i \in 1..N})
          = 2 * N
    /\ \A i \in 1..N : Reused(i) => runs >= 2

\* a complete first run: every build directory exists and every component
\* was cloned
C18_Witness ==
    /\ runs = 1
    /\ pc = "done"
    /\ \A i \in 1..N : build_dir(i) \in fs /\ HasOkCall("clone", i)

(* ------------------------------ C19 ------------------------------------ *)
\* C19: when configure has been invoked for a component, its source_dir and
\* build_dir exist; the source tree was either found by the acquire step or
\* made by a clone that exited 0, and no failed clone of the component
\* precedes the configure call.
C19_ConfigureHasDirs ==
    \A i \in 1..N :
        HasCall("configure", i) =>
            /\ source_dir(i) \in fs
            /\ build_dir(i) \in fs
            /\ Reused(i) \/ HasOkCall("clone", i)
            /\ ~(Reused(i) /\ HasCall("clone", i))
            /\ \A k \in DOMAIN trace :
                  (trace[k].op = "clone" /\ trace[k].comp = i)
                      => Succeeded(trace[k])

\* a second run found the tree an earlier run left (the component was not
\* installed yet) and configured it
C19_Witness ==
    /\ runs = 2
    /\ Reused(1)
    /\ HasCall("configure", 1)
    /\ COMPONENTS[1].name \notin prefix
    /\ source_dir(1) \in fs
    /\ build_dir(1) \in fs

====
